---- MODULE Spec2Model ----
(***************************************************************************)
(* caxlang: lexer -> recursive-descent parser -> tree-walking interpreter, *)
(* with a stubbed bytecode compiler and the chunk disassembler of the VM.  *)
(*                                                                         *)
(* The parser is modelled as a stack machine: one frame per active call of *)
(* a grammar rule, one action per rule, each action being the code of the  *)
(* rule between two calls of a sub-rule.  self.pos is kept 0-based as in   *)
(* the source; tokens[pos + 1] is the source's tokens.get(pos).            *)
(***************************************************************************)
EXTENDS Integers, Sequences, FiniteSets, TLC

VARIABLES
    src,      \* produce_ast's argument `code`, a sequence of characters
    tokens,   \* Parser.tokens
    pos,      \* Parser.pos
    stack,    \* the active calls of the parser's rules, innermost last
    ret,      \* the value returned by the call that returned last
    phase,    \* where the pipeline stands
    abort,    \* "none", or the panic that ended the process
    ast,      \* the Vec<Box<Expr>> handed from the parser to a backend
    vals,     \* Interpreter::parse's Vec<Result<RuntimeVal, InterpError>>
    chunk,    \* Chunk.bytes
    text      \* the String Chunk::dissasemble returned

vars == <<src, tokens, pos, stack, ret, phase, abort, ast, vals, chunk, text>>

(***************************************************************************)
(* Bounds of the model.                                                    *)
(***************************************************************************)
MaxTokens == 3
MaxSrc == 5
MaxNodes == 4

(***************************************************************************)
(* lexer.rs: Token                                                         *)
(***************************************************************************)
Number(n) == [t |-> "Number", n |-> n]
String(s) == [t |-> "String", s |-> s]
Ident(s) == [t |-> "Ident", s |-> s]
Plus == [t |-> "Plus"]
Minus == [t |-> "Minus"]
Mult == [t |-> "Mult"]
Div == [t |-> "Div"]
True == [t |-> "True"]
False == [t |-> "False"]
Equal == [t |-> "Equal"]
Bang == [t |-> "Bang"]
NEqual == [t |-> "NEqual"]
Less == [t |-> "Less"]
Greater == [t |-> "Greater"]
GEqual == [t |-> "GEqual"]
LEqual == [t |-> "LEqual"]
DEqual == [t |-> "DEqual"]
LParen == [t |-> "LParen"]
RParen == [t |-> "RParen"]
Nil == [t |-> "Nil"]

\* Option<&Token>::None, as peek and advance return it.
None == [t |-> "None"]

(***************************************************************************)
(* lexer.rs: tokenize, on text made of digits, the operator characters,    *)
(* parentheses and the skipped characters.  Logos takes the longest match  *)
(* at each place.                                                          *)
(***************************************************************************)
Digits == {"0", "1", "2", "3", "4", "5", "6", "7", "8", "9"}

Skipped == {" ", "\t", "\n"}

DigitVal(c) ==
    CASE c = "0" -> 0 [] c = "1" -> 1 [] c = "2" -> 2 [] c = "3" -> 3
      [] c = "4" -> 4 [] c = "5" -> 5 [] c = "6" -> 6 [] c = "7" -> 7
      [] c = "8" -> 8 [] c = "9" -> 9

\* The length of the match of (?:0|[1-9]\d*) at s[i], where s[i] is a digit.
RECURSIVE DigitRun(_, _)
DigitRun(s, i) ==
    IF i > Len(s) \/ s[i] \notin Digits THEN 0 ELSE 1 + DigitRun(s, i + 1)

NumberLen(s, i) == IF s[i] = "0" THEN 1 ELSE DigitRun(s, i)

\* lex.slice().parse::<f64>() of the digits s[i .. i + n - 1].
RECURSIVE ParseF64(_, _, _)
ParseF64(s, i, n) ==
    IF n = 0 THEN 0 ELSE 10 * ParseF64(s, i, n - 1) + DigitVal(s[i + n - 1])

\* The token matched at s[i] and the number of characters it takes.
OneChar(c) ==
    CASE c = "+" -> Plus [] c = "-" -> Minus [] c = "*" -> Mult
      [] c = "/" -> Div [] c = "=" -> Equal [] c = "!" -> Bang
      [] c = "<" -> Less [] c = ">" -> Greater
      [] c = "(" -> LParen [] c = ")" -> RParen

LexAt(s, i) ==
    LET c == s[i]
        two == i < Len(s) /\ s[i + 1] = "="
    IN  IF c \in Digits
          THEN [tk |-> Number(ParseF64(s, i, NumberLen(s, i))),
                len |-> NumberLen(s, i)]
        ELSE IF c = "!" /\ two THEN [tk |-> NEqual, len |-> 2]
        ELSE IF c = "<" /\ two THEN [tk |-> LEqual, len |-> 2]
        ELSE IF c = ">" /\ two THEN [tk |-> GEqual, len |-> 2]
        ELSE IF c = "=" /\ two THEN [tk |-> DEqual, len |-> 2]
        ELSE [tk |-> OneChar(c), len |-> 1]

RECURSIVE LexFrom(_, _)
LexFrom(s, i) ==
    IF i > Len(s) THEN <<>>
    ELSE IF s[i] \in Skipped THEN LexFrom(s, i + 1)
    ELSE <<LexAt(s, i).tk>> \o LexFrom(s, i + LexAt(s, i).len)

tokenize(code) == LexFrom(code, 1)

(***************************************************************************)
(* parser.rs: Literal and Expr                                             *)
(***************************************************************************)
LitNumber(n) == [l |-> "Number", n |-> n]
LitString(s) == [l |-> "String", s |-> s]
LitTrue == [l |-> "True"]
LitFalse == [l |-> "False"]
LitNil == [l |-> "Nil"]
LitExpr(e) == [l |-> "Expr", e |-> e]

Literal(l) == [kind |-> "Literal", lit |-> l]
Grouping(e) == [kind |-> "Grouping", inner |-> e]
Unary(op, right) == [kind |-> "Unary", op |-> op, right |-> right]
Binary(left, op, right) ==
    [kind |-> "Binary", left |-> left, op |-> op, right |-> right]

\* A frame's expr, and ret, before anything is stored there.
NoExpr == [kind |-> "none"]

(***************************************************************************)
(* parser.rs: the parser's helpers, over Parser.tokens and Parser.pos.     *)
(***************************************************************************)
peek == IF pos < Len(tokens) THEN tokens[pos + 1] ELSE None

check(tk) == peek # None /\ peek = tk

\* Whether tmatch(tks) returns true; it then has advanced once.
tmatch(tks) == \E i \in DOMAIN tks : check(tks[i])

\* A slip: the position moved once by check and once more by tmatch.
advance_Twice == IF pos < Len(tokens) THEN pos + 2 ELSE pos

\* Parser.pos after advance().
advance == IF pos < Len(tokens) THEN pos + 1 ELSE pos

\* Whether previous() finds a token at pos - 1 (it panics otherwise).
previousInRange == pos >= 1 /\ pos - 1 < Len(tokens)

\* A slip: the token at pos read, self.tokens.get(self.pos).
previous_AtPos == peek

previous == tokens[pos]

(***************************************************************************)
(* The call stack of the parser.                                           *)
(***************************************************************************)
Frame(fn, pc) == [fn |-> fn, pc |-> pc, expr |-> NoExpr, op |-> None]

top == stack[Len(stack)]

InRule(fn, pc) ==
    /\ phase = "parsing"
    /\ stack # <<>>
    /\ top.fn = fn
    /\ top.pc = pc

\* The running call stores expr and op, moves to pc, and calls rule fn.
Call(fn, pc, expr, op) ==
    stack' = [stack EXCEPT ![Len(stack)] =
                 [fn |-> top.fn, pc |-> pc, expr |-> expr, op |-> op]]
             \o <<Frame(fn, "begin")>>

\* The running call returns e to its caller.
Return(e) ==
    /\ stack' = SubSeq(stack, 1, Len(stack) - 1)
    /\ ret' = e

\* The process panics: nothing runs after it.
Panic(why) ==
    /\ phase' = "panicked"
    /\ abort' = why
    /\ stack' = <<>>

(***************************************************************************)
(* parser.rs: the grammar rules.  equality, comparison, term and factor    *)
(* share one shape:                                                        *)
(*     let mut expr = self.SUB();                                          *)
(*     while self.tmatch(OPS) {                                            *)
(*         let op = self.previous().clone();                               *)
(*         let right = self.SUB();                                         *)
(*         expr = Box::new(Expr::Binary { left: expr, op, right });        *)
(*     }                                                                   *)
(*     expr                                                                *)
(***************************************************************************)
pipeline == <<src, tokens, ast, vals, chunk, text>>

\* let mut expr = self.SUB();
RuleBegin(fn, sub) ==
    /\ InRule(fn, "begin")
    /\ Call(sub, "left", NoExpr, None)
    /\ UNCHANGED <<pos, ret, phase, abort, pipeline>>

\* A call of SUB returned: expr is assigned, then the while condition runs.
RuleWhile(fn, ops) ==
    /\ \/ InRule(fn, "left")
       \/ InRule(fn, "right")
    /\ LET expr == IF top.pc = "left" THEN ret
                   ELSE Binary(top.expr, top.op, ret)
       IN  IF tmatch(ops)
             THEN /\ pos' = advance
                  /\ stack' = [stack EXCEPT ![Len(stack)] =
                                  [fn |-> fn, pc |-> "matched",
                                   expr |-> expr, op |-> None]]
                  /\ UNCHANGED ret
             ELSE /\ Return(expr)
                  /\ UNCHANGED pos
    /\ UNCHANGED <<phase, abort, pipeline>>

\* let op = self.previous().clone(); let right = self.SUB();
RuleOperator(fn, sub) ==
    /\ InRule(fn, "matched")
    /\ IF previousInRange
         THEN /\ Call(sub, "right", top.expr, previous)
              /\ UNCHANGED <<phase, abort>>
         ELSE Panic("previous: unwrap on None")
    /\ UNCHANGED <<pos, ret, pipeline>>

equality ==
    \/ RuleBegin("equality", "comparison")
    \/ RuleWhile("equality", <<NEqual, DEqual>>)
    \/ RuleOperator("equality", "comparison")

comparison ==
    \/ RuleBegin("comparison", "term")
    \/ RuleWhile("comparison", <<Less, Greater, LEqual, GEqual>>)
    \/ RuleOperator("comparison", "term")

\* A slip: the right operand parsed by the rule itself, let right = self.term().
term_RightRecursive ==
    \/ RuleBegin("term", "factor")
    \/ RuleWhile("term", <<Minus, Plus>>)
    \/ RuleOperator("term", "term")

term ==
    \/ RuleBegin("term", "factor")
    \/ RuleWhile("term", <<Minus, Plus>>)
    \/ RuleOperator("term", "factor")

factor ==
    \/ RuleBegin("factor", "unary")
    \/ RuleWhile("factor", <<Div, Mult>>)
    \/ RuleOperator("factor", "unary")

UnaryBegin ==
    /\ InRule("unary", "begin")
    /\ IF tmatch(<<Bang, Minus>>)
         THEN /\ pos' = advance
              /\ stack' = [stack EXCEPT ![Len(stack)].pc = "matched"]
         ELSE /\ Call("primary", "tail", NoExpr, None)
              /\ UNCHANGED pos
    /\ UNCHANGED <<ret, phase, abort, pipeline>>

UnaryOperator ==
    /\ InRule("unary", "matched")
    /\ IF previousInRange
         THEN /\ Call("unary", "right", NoExpr, previous)
              /\ UNCHANGED <<phase, abort>>
         ELSE Panic("previous: unwrap on None")
    /\ UNCHANGED <<pos, ret, pipeline>>

UnaryReturn ==
    /\ \/ InRule("unary", "right") /\ Return(Unary(top.op, ret))
       \/ InRule("unary", "tail") /\ Return(ret)
    /\ UNCHANGED <<pos, phase, abort, pipeline>>

\* A slip: the operand of a prefix operator parsed as a term.
UnaryOperatorOnTerm ==
    /\ InRule("unary", "matched")
    /\ IF previousInRange
         THEN /\ Call("term", "right", NoExpr, previous)
              /\ UNCHANGED <<phase, abort>>
         ELSE Panic("previous: unwrap on None")
    /\ UNCHANGED <<pos, ret, pipeline>>

unary_OperandIsTerm ==
    \/ UnaryBegin
    \/ UnaryOperatorOnTerm
    \/ UnaryReturn

unary ==
    \/ UnaryBegin
    \/ UnaryOperator
    \/ UnaryReturn

PrimaryBegin ==
    /\ InRule("primary", "begin")
    /\ IF peek = None
         THEN /\ Panic("primary: unwrap on None")
              /\ UNCHANGED <<pos, ret>>
       ELSE IF peek.t = "String"
         THEN /\ pos' = advance
              /\ Return(Literal(LitString(peek.s)))
              /\ UNCHANGED <<phase, abort>>
       ELSE IF peek.t = "Number"
         THEN /\ pos' = advance
              /\ Return(Literal(LitNumber(peek.n)))
              /\ UNCHANGED <<phase, abort>>
       ELSE IF tmatch(<<True>>)
         THEN /\ pos' = advance
              /\ Return(Literal(LitTrue))
              /\ UNCHANGED <<phase, abort>>
       ELSE IF tmatch(<<False>>)
         THEN /\ pos' = advance
              /\ Return(Literal(LitFalse))
              /\ UNCHANGED <<phase, abort>>
       ELSE IF tmatch(<<Nil>>)
         THEN /\ pos' = advance
              /\ Return(Literal(LitNil))
              /\ UNCHANGED <<phase, abort>>
       ELSE IF tmatch(<<LParen>>)
         THEN /\ pos' = advance
              /\ Call("expression", "group", NoExpr, None)
              /\ UNCHANGED <<ret, phase, abort>>
         ELSE /\ Panic("Expected expression.")
              /\ UNCHANGED <<pos, ret>>
    /\ UNCHANGED pipeline

\* self.consume(Token::RParen, ...); return Box::new(Expr::Grouping(expr));
PrimaryGroup ==
    /\ InRule("primary", "group")
    /\ IF tmatch(<<RParen>>)
         THEN /\ pos' = advance
              /\ Return(Grouping(ret))
              /\ UNCHANGED <<phase, abort>>
         ELSE /\ Panic("Expected ')' after expression!")
              /\ UNCHANGED <<pos, ret>>
    /\ UNCHANGED pipeline

primary ==
    \/ PrimaryBegin
    \/ PrimaryGroup

expression ==
    /\ \/ InRule("expression", "begin")
          /\ Call("equality", "tail", NoExpr, None)
          /\ UNCHANGED ret
       \/ InRule("expression", "tail")
          /\ Return(ret)
    /\ UNCHANGED <<pos, phase, abort, pipeline>>

\* Parser::parse is entered: ast.push(self.expression()) calls expression.
ParseCall ==
    /\ phase = "parser"
    /\ phase' = "parsing"
    /\ stack' = <<Frame("parse", "push"), Frame("expression", "begin")>>
    /\ UNCHANGED <<pos, ret, abort, pipeline>>

\* expression returned: the AST is pushed and returned.
ParseReturn ==
    /\ InRule("parse", "push")
    /\ ast' = <<ret>>
    /\ phase' = "parsed"
    /\ stack' = <<>>
    /\ UNCHANGED <<src, tokens, pos, ret, abort, vals, chunk, text>>

parse ==
    \/ ParseCall
    \/ ParseReturn

\* produce_ast: the code is lexed and a Parser made of the tokens.
produce_ast ==
    /\ phase = "source"
    /\ tokens' = tokenize(src)
    /\ pos' = 0
    /\ phase' = "parser"
    /\ UNCHANGED <<src, stack, ret, abort, ast, vals, chunk, text>>

(***************************************************************************)
(* interpreter.rs: RuntimeVal, InterpError and the Result of evaluate.     *)
(* A Number is an f64; the model's numbers are integers, which f64 adds,   *)
(* subtracts and negates exactly.  The model has one zero: 0.0 and -0.0,   *)
(* which f64's == holds equal, are the same Number here.                   *)
(***************************************************************************)
RString(s) == [v |-> "String", s |-> s]
RNumber(n) == [v |-> "Number", n |-> n]
RBool(b) == [v |-> "Bool", b |-> b]
RNil == [v |-> "Nil"]

LiteralIsExpr == [e |-> "LiteralIsExpr"]
InvalidUnaryOperator(op, v) ==
    [e |-> "InvalidUnaryOperator", op |-> op, right |-> v]
UnaryOperatorOnNonNumber(op) == [e |-> "UnaryOperatorOnNonNumber", op |-> op]
InvalidBinaryOperator(op, l, r) ==
    [e |-> "InvalidBinaryOperator", op |-> op, left |-> l, right |-> r]
BinaryOperatorOnNonNumber(op, l, r) ==
    [e |-> "BinaryOperatorOnNonNumber", op |-> op, left |-> l, right |-> r]

Ok(v) == [ok |-> TRUE, val |-> v]
Err(e) == [ok |-> FALSE, err |-> e]

evaluateLiteral(l) ==
    CASE l.l = "String" -> Ok(RString(l.s))
      [] l.l = "Number" -> Ok(RNumber(l.n))
      [] l.l = "Nil" -> Ok(RNil)
      [] l.l = "Expr" -> Err(LiteralIsExpr)
      [] l.l = "True" -> Ok(RBool("True"))
      [] l.l = "False" -> Ok(RBool("False"))

\* A slip: the operand's type is not looked at before the operator is.
evaluateUnary_NoTypeCheck(op, right_eval) ==
    IF op = Minus /\ right_eval.v = "Number"
      THEN Ok(RNumber(0 - right_eval.n))
      ELSE Err(InvalidUnaryOperator(op, right_eval))

\* Expr::Unary, its operand evaluated to right_eval.
evaluateUnary(op, right_eval) ==
    IF op = Minus
      THEN IF right_eval.v = "Number"
             THEN Ok(RNumber(0 - right_eval.n))
             ELSE Err(UnaryOperatorOnNonNumber(op))
      ELSE Err(InvalidUnaryOperator(op, right_eval))

\* A slip: the operands of '-' taken in the wrong order.
evaluateBinary_MinusSwapped(op, left_eval, right_eval) ==
    IF op \in {Plus, Minus}
      THEN IF left_eval.v = "Number" /\ right_eval.v = "Number"
             THEN Ok(RNumber(IF op = Plus THEN left_eval.n + right_eval.n
                             ELSE right_eval.n - left_eval.n))
             ELSE Err(BinaryOperatorOnNonNumber(op, left_eval, right_eval))
      ELSE Err(InvalidBinaryOperator(op, left_eval, right_eval))

\* A slip: the values of the error built in the wrong order.
evaluateBinary_ErrorSwapped(op, left_eval, right_eval) ==
    IF op \in {Plus, Minus}
      THEN IF left_eval.v = "Number" /\ right_eval.v = "Number"
             THEN Ok(RNumber(IF op = Plus THEN left_eval.n + right_eval.n
                             ELSE left_eval.n - right_eval.n))
             ELSE Err(BinaryOperatorOnNonNumber(op, right_eval, left_eval))
      ELSE Err(InvalidBinaryOperator(op, left_eval, right_eval))

\* A slip: the operands' types are checked before the operator is.
evaluateBinary_TypesFirst(op, left_eval, right_eval) ==
    IF left_eval.v = "Number" /\ right_eval.v = "Number"
      THEN IF op = Plus THEN Ok(RNumber(left_eval.n + right_eval.n))
           ELSE IF op = Minus THEN Ok(RNumber(left_eval.n - right_eval.n))
           ELSE Err(InvalidBinaryOperator(op, left_eval, right_eval))
      ELSE Err(BinaryOperatorOnNonNumber(op, left_eval, right_eval))

\* Expr::Binary, its operands evaluated to left_eval and right_eval.
evaluateBinary(op, left_eval, right_eval) ==
    IF op = Plus
      THEN IF left_eval.v = "Number" /\ right_eval.v = "Number"
             THEN Ok(RNumber(left_eval.n + right_eval.n))
             ELSE Err(BinaryOperatorOnNonNumber(op, left_eval, right_eval))
    ELSE IF op = Minus
      THEN IF left_eval.v = "Number" /\ right_eval.v = "Number"
             THEN Ok(RNumber(left_eval.n - right_eval.n))
             ELSE Err(BinaryOperatorOnNonNumber(op, left_eval, right_eval))
    ELSE Err(InvalidBinaryOperator(op, left_eval, right_eval))

RECURSIVE evaluate(_)
evaluate(expr) ==
    CASE expr.kind = "Literal" -> evaluateLiteral(expr.lit)
      [] expr.kind = "Unary" ->
            LET right_eval == evaluate(expr.right)
            IN  IF ~right_eval.ok THEN right_eval
                ELSE evaluateUnary(expr.op, right_eval.val)
      [] expr.kind = "Binary" ->
            LET left_eval == evaluate(expr.left)
            IN  IF ~left_eval.ok THEN left_eval
                ELSE LET right_eval == evaluate(expr.right)
                     IN  IF ~right_eval.ok THEN right_eval
                         ELSE evaluateBinary(expr.op, left_eval.val,
                                             right_eval.val)
      [] expr.kind = "Grouping" -> evaluate(expr.inner)

\* Interpreter::new(ast).parse(): one result per top-level expression.
Interpreter_parse ==
    /\ phase = "parsed"
    /\ vals' = [i \in DOMAIN ast |-> evaluate(ast[i])]
    /\ phase' = "interpreted"
    /\ UNCHANGED <<src, tokens, pos, stack, ret, abort, ast, chunk, text>>

(***************************************************************************)
(* compiler.rs: Compiler::parse is todo!(), which panics.                  *)
(***************************************************************************)
Compiler_parse ==
    /\ phase = "parsed"
    /\ Panic("not yet implemented")
    /\ UNCHANGED <<src, tokens, pos, ret, ast, vals, chunk, text>>

(***************************************************************************)
(* vm.rs: OpCode, Register, Chunk                                          *)
(***************************************************************************)
Add == 0
Sub == 1

\* Register::R0 .. Register::R7 as bytes, in the order parse_operand tries them.
RegisterName(b) ==
    CASE b = 0 -> "R0" [] b = 1 -> "R1" [] b = 2 -> "R2" [] b = 3 -> "R3"
      [] b = 4 -> "R4" [] b = 5 -> "R5" [] b = 6 -> "R6" [] b = 7 -> "R7"
      [] OTHER -> ""

\* A slip: the opcode byte is not skipped.
parse_operand_OpcodeNotSkipped(bytes, operand_index) ==
    RegisterName(bytes[operand_index + 1])

\* bytes is 1-based here: the source's bytes[operand_index + 1].
parse_operand(bytes, operand_index) == RegisterName(bytes[operand_index + 2])

dissasemble(bytes) ==
    LET operand_one == parse_operand(bytes, 0)
        operand_two == parse_operand(bytes, 1)
        opcode_str == IF bytes[1] = Add THEN "Add"
                      ELSE IF bytes[1] = Sub THEN "Sub"
                      ELSE ""
    IN  opcode_str \o " " \o operand_one \o " " \o operand_two

\* println!("{}", &chunk): Display calls Debug, which calls dissasemble.
Chunk_fmt ==
    /\ phase = "chunk"
    /\ text' = dissasemble(chunk)
    /\ phase' = "dissasembled"
    /\ UNCHANGED <<src, tokens, pos, stack, ret, abort, ast, vals, chunk>>

(***************************************************************************)
(* The inputs.                                                             *)
(***************************************************************************)
\* produce_ast(code): the programs over these characters, MaxSrc long at most.
SrcChars == {"1", "2", "+", "-", " "}

\* Parser::new(tokens): every token sequence over these, MaxTokens long at most,
TokenAlphabet ==
    {Number(1), Number(2), String("a"), Ident("x"), Plus, Minus, Mult, Div,
     True, False, Equal, Bang, NEqual, Less, Greater, GEqual, LEqual, DEqual,
     LParen, RParen, Nil}

\* and the chains  a op1 b op2 c  of three operands, each a number, a number in
\* parentheses or a number under a prefix operator, with every pair of binary
\* operators.
BinaryOps ==
    {NEqual, DEqual, Less, Greater, LEqual, GEqual, Minus, Plus, Div, Mult}

UnaryOps == {Bang, Minus}

Operands(n) ==
    {<<Number(n)>>, <<LParen, Number(n), RParen>>}
    \cup {<<u, Number(n)>> : u \in UnaryOps}

Chains ==
    {a \o <<op1>> \o b \o <<op2>> \o c :
        a \in Operands(1), b \in Operands(2), c \in Operands(5),
        op1 \in BinaryOps, op2 \in BinaryOps}

\* Interpreter::new(ast): every Expr of MaxNodes nodes at most.
Literals ==
    {LitNumber(1), LitNumber(2), LitString("a"), LitTrue, LitFalse, LitNil,
     LitExpr(Literal(LitNil))}

RECURSIVE ExprsOfSize(_)
ExprsOfSize(n) ==
    IF n = 1 THEN {Literal(l) : l \in Literals}
    ELSE UNION ({{Grouping(e) : e \in ExprsOfSize(n - 1)},
                 {Unary(op, e) : op \in UnaryOps, e \in ExprsOfSize(n - 1)}}
                \cup {{Binary(l, op, r) :
                          l \in ExprsOfSize(k), op \in BinaryOps,
                          r \in ExprsOfSize(n - 1 - k)} : k \in 1..(n - 2)})

\* Chunk::new(bytes): the bytes 0..MaxByte and the largest u8.
MaxByte == 9
U8Max == 255

Bytes == (0..MaxByte) \cup {U8Max}

(***************************************************************************)
(* The specifications.                                                     *)
(***************************************************************************)
Idle ==
    /\ pos = 0
    /\ stack = <<>>
    /\ ret = NoExpr
    /\ abort = "none"
    /\ vals = <<>>
    /\ text = ""

InitSource ==
    /\ phase = "source"
    /\ \E n \in 0..MaxSrc : src \in [1..n -> SrcChars]
    /\ tokens = <<>>
    /\ ast = <<>>
    /\ chunk = <<0, 0, 0>>
    /\ Idle

InitTokens ==
    /\ phase = "parser"
    /\ src = <<>>
    /\ \/ \E n \in 0..MaxTokens : tokens \in [1..n -> TokenAlphabet]
       \/ tokens \in Chains
    /\ ast = <<>>
    /\ chunk = <<0, 0, 0>>
    /\ Idle

\* The pipeline: text or tokens, the parser, then one of the two backends.
Init == InitSource \/ InitTokens

Next ==
    \/ produce_ast
    \/ parse
    \/ expression
    \/ equality
    \/ comparison
    \/ term
    \/ factor
    \/ unary
    \/ primary
    \/ Interpreter_parse
    \/ Compiler_parse

Spec == Init /\ [][Next]_vars

\* The interpreter alone, on any AST of one expression.
AstOfSize(n) ==
    \/ /\ n = 1
       /\ \E l \in Literals : ast = <<Literal(l)>>
    \/ /\ n > 1
       /\ \E e \in ExprsOfSize(n - 1) : ast = <<Grouping(e)>>
    \/ /\ n > 1
       /\ \E op \in UnaryOps, e \in ExprsOfSize(n - 1) : ast = <<Unary(op, e)>>
    \/ \E k \in 1..(n - 2) :
          \E l \in ExprsOfSize(k), op \in BinaryOps, r \in ExprsOfSize(n - 1 - k) :
             ast = <<Binary(l, op, r)>>

InitInterp ==
    /\ phase = "parsed"
    /\ src = <<>>
    /\ tokens = <<>>
    /\ \E n \in 1..MaxNodes : AstOfSize(n)
    /\ chunk = <<0, 0, 0>>
    /\ Idle

NextInterp == Interpreter_parse

SpecInterp == InitInterp /\ [][NextInterp]_vars

\* The disassembler alone, on any chunk.
InitVM ==
    /\ phase = "chunk"
    /\ src = <<>>
    /\ tokens = <<>>
    /\ ast = <<>>
    /\ chunk \in [1..3 -> Bytes]
    /\ Idle

NextVM == Chunk_fmt

SpecVM == InitVM /\ [][NextVM]_vars

(***************************************************************************)
(* Properties.                                                             *)
(***************************************************************************)
ParserPanics ==
    {"primary: unwrap on None", "Expected expression.",
     "Expected ')' after expression!", "previous: unwrap on None"}

Parsed == ast # <<>>

\* C1: on a token sequence that is not a well-formed expression Parser::parse
\* returns a ParseError; it never reaches a panic.
C1_ParseNeverPanics == abort \notin ParserPanics

\* C2: whenever Parser::parse returns an AST, pos = tokens.len(): no trailing
\* token is left unread.
C2_ParseConsumesAll == Parsed => pos = Len(tokens)

IsLiteralToken(tk) == tk.t \in {"Number", "String", "True", "False", "Nil"}

LiteralOf(tk) ==
    CASE tk.t = "Number" -> Literal(LitNumber(tk.n))
      [] tk.t = "String" -> Literal(LitString(tk.s))
      [] tk.t = "True" -> Literal(LitTrue)
      [] tk.t = "False" -> Literal(LitFalse)
      [] tk.t = "Nil" -> Literal(LitNil)

\* The primary that starts at ts[i], where it is a literal or a literal in
\* parentheses, and the index after it.
ReadPrimary(ts, i) ==
    IF i <= Len(ts) /\ IsLiteralToken(ts[i])
      THEN [ok |-> TRUE, expr |-> LiteralOf(ts[i]), next |-> i + 1]
    ELSE IF /\ i + 2 <= Len(ts)
            /\ ts[i] = LParen
            /\ IsLiteralToken(ts[i + 1])
            /\ ts[i + 2] = RParen
      THEN [ok |-> TRUE, expr |-> Grouping(LiteralOf(ts[i + 1])),
            next |-> i + 3]
    ELSE [ok |-> FALSE, expr |-> NoExpr, next |-> i]

\* The precedence level of a binary operator: equality lowest, factor highest.
Level(op) ==
    CASE op \in {NEqual, DEqual} -> 1
      [] op \in {Less, Greater, LEqual, GEqual} -> 2
      [] op \in {Minus, Plus} -> 3
      [] op \in {Div, Mult} -> 4

\* ts is  a op1 b op2 c  with a, b, c primaries and op1, op2 of one level.
SameLevelChain(ts) ==
    LET a == ReadPrimary(ts, 1)
        b == ReadPrimary(ts, a.next + 1)
        c == ReadPrimary(ts, b.next + 1)
    IN  /\ a.ok
        /\ a.next <= Len(ts)
        /\ ts[a.next] \in BinaryOps
        /\ b.ok
        /\ b.next <= Len(ts)
        /\ ts[b.next] \in BinaryOps
        /\ Level(ts[a.next]) = Level(ts[b.next])
        /\ c.ok
        /\ c.next = Len(ts) + 1

LeftNested(ts) ==
    LET a == ReadPrimary(ts, 1)
        b == ReadPrimary(ts, a.next + 1)
        c == ReadPrimary(ts, b.next + 1)
    IN  Binary(Binary(a.expr, ts[a.next], b.expr), ts[b.next], c.expr)

\* C3: a op1 b op2 c, with op1 and op2 of the same precedence level, parses
\* to Binary(Binary(a, op1, b), op2, c), never to the right-nested tree.
C3_LeftAssociative ==
    SameLevelChain(tokens) =>
        /\ abort \notin ParserPanics
        /\ Parsed => ast = <<LeftNested(tokens)>>

C3_Witness ==
    /\ phase = "parsed"
    /\ tokens = <<Number(1), Minus, Number(2), Minus, Number(5)>>
    /\ ast = <<Binary(Binary(Literal(LitNumber(1)), Minus,
                             Literal(LitNumber(2))),
                      Minus, Literal(LitNumber(5)))>>

\* The operands of e are shaped as the precedence levels demand, in e and in
\* every node under it.
RECURSIVE PrecedenceShaped(_)
PrecedenceShaped(e) ==
    CASE e.kind = "Literal" -> TRUE
      [] e.kind = "Grouping" -> PrecedenceShaped(e.inner)
      [] e.kind = "Unary" ->
            /\ e.right.kind \in {"Unary", "Literal", "Grouping"}
            /\ PrecedenceShaped(e.right)
      [] e.kind = "Binary" ->
            /\ e.left.kind = "Binary" => Level(e.left.op) >= Level(e.op)
            /\ e.right.kind = "Binary" => Level(e.right.op) >= Level(e.op)
            /\ PrecedenceShaped(e.left)
            /\ PrecedenceShaped(e.right)

\* C4: in every AST the parser produces, the operand of a Unary is a Unary, a
\* Literal or a Grouping, and no operand of a Binary is a Binary of a lower
\* precedence level; "-1 + -2" parses to a Binary of two Unary nodes.
C4_PrecedenceByShape ==
    Parsed =>
        /\ PrecedenceShaped(ast[1])
        /\ tokens = <<Minus, Number(1), Plus, Minus, Number(2)>> =>
              /\ ast[1].kind = "Binary"
              /\ ast[1].left.kind = "Unary"
              /\ ast[1].right.kind = "Unary"

C4_Witness ==
    /\ phase = "parsed"
    /\ src = <<"-", "1", "+", "-", "2">>
    /\ ast = <<Binary(Unary(Minus, Literal(LitNumber(1))), Plus,
                      Unary(Minus, Literal(LitNumber(2))))>>

\* A program of numeric literals and binary '+' and '-': numbers (without the
\* digit 0) with one operator between each two, blanks anywhere but inside a
\* number.  q is what the text before s[i] leaves expected.
RECURSIVE ArithFrom(_, _, _)
ArithFrom(s, i, q) ==
    IF i > Len(s) THEN q \in {"number", "after"}
    ELSE IF s[i] \in Digits \ {"0"}
      THEN q \in {"start", "number"} /\ ArithFrom(s, i + 1, "number")
    ELSE IF s[i] \in {"+", "-"}
      THEN q \in {"number", "after"} /\ ArithFrom(s, i + 1, "start")
    ELSE IF s[i] = " "
      THEN ArithFrom(s, i + 1, IF q = "number" THEN "after" ELSE q)
    ELSE FALSE

IsArithSource(s) == ArithFrom(s, 1, "start")

\* Its value, folding from the left: acc is the value of the operands before
\* the one being read, cur the operand being read and sign its operator.
RECURSIVE FoldFrom(_, _, _, _, _)
FoldFrom(s, i, acc, sign, cur) ==
    IF i > Len(s) THEN acc + sign * cur
    ELSE IF s[i] \in Digits
      THEN FoldFrom(s, i + 1, acc, sign, 10 * cur + DigitVal(s[i]))
    ELSE IF s[i] = "+" THEN FoldFrom(s, i + 1, acc + sign * cur, 1, 0)
    ELSE IF s[i] = "-" THEN FoldFrom(s, i + 1, acc + sign * cur, 0 - 1, 0)
    ELSE FoldFrom(s, i + 1, acc, sign, cur)

SourceValue(s) == FoldFrom(s, 1, 0, 1, 0)

\* The same of a token sequence: n1 op1 n2 op2 ... nk.
IsArithTokens(ts) ==
    /\ Len(ts) % 2 = 1
    /\ \A i \in DOMAIN ts :
          IF i % 2 = 1 THEN ts[i].t = "Number" ELSE ts[i] \in {Plus, Minus}

RECURSIVE TokensValue(_, _)
TokensValue(ts, k) ==
    IF k = 1 THEN ts[1].n
    ELSE IF ts[k - 1] = Plus THEN TokensValue(ts, k - 2) + ts[k].n
    ELSE TokensValue(ts, k - 2) - ts[k].n

\* C5: a program of numeric literals and binary '+' and '-', lexed, parsed and
\* evaluated, yields Ok(Number(v)), v the left-to-right fold of its literals.
C5_ArithmeticFoldsLeft ==
    /\ (src # <<>> /\ IsArithSource(src)) =>
          /\ abort \notin ParserPanics
          /\ phase = "interpreted" => vals = <<Ok(RNumber(SourceValue(src)))>>
    /\ IsArithTokens(tokens) =>
          /\ abort \notin ParserPanics
          /\ phase = "interpreted" =>
                vals = <<Ok(RNumber(TokensValue(tokens, Len(tokens))))>>

C5_Witness ==
    /\ phase = "interpreted"
    /\ src = <<"2", "-", "1", "-", "2">>
    /\ vals = <<Ok(RNumber(0 - 1))>>

\* The nodes of e, e among them.
RECURSIVE SubExprs(_)
SubExprs(e) ==
    CASE e.kind = "Literal" -> {e}
      [] e.kind = "Grouping" -> {e} \cup SubExprs(e.inner)
      [] e.kind = "Unary" -> {e} \cup SubExprs(e.right)
      [] e.kind = "Binary" -> {e} \cup SubExprs(e.left) \cup SubExprs(e.right)

\* What evaluating node e gave: the interpreter's result for the root.
ResultOf(e) == IF e = ast[1] THEN vals[1] ELSE evaluate(e)

IsNumber(r) == r.ok /\ r.val.v = "Number"

\* C6: a '+' or '-' node whose operands both evaluate, one of them not to a
\* Number, gives Err(BinaryOperatorOnNonNumber(op, left value, right value)).
C6_NonNumberOperand ==
    phase = "interpreted" =>
        \A e \in SubExprs(ast[1]) :
            (/\ e.kind = "Binary"
             /\ e.op \in {Plus, Minus}
             /\ ResultOf(e.left).ok
             /\ ResultOf(e.right).ok
             /\ ~(IsNumber(ResultOf(e.left)) /\ IsNumber(ResultOf(e.right))))
            => ResultOf(e) = Err(BinaryOperatorOnNonNumber(
                                    e.op, ResultOf(e.left).val,
                                    ResultOf(e.right).val))

C6_Witness ==
    /\ phase = "interpreted"
    /\ ast = <<Binary(Literal(LitNumber(1)), Plus, Literal(LitString("a")))>>
    /\ vals = <<Err(BinaryOperatorOnNonNumber(Plus, RNumber(1), RString("a")))>>

\* e without the parentheses around it.
RECURSIVE Ungrouped(_)
Ungrouped(e) == IF e.kind = "Grouping" THEN Ungrouped(e.inner) ELSE e

\* C7: a Unary node whose operand evaluates to v gives Ok(Number(-n)) for '-'
\* on Number(n), Err(UnaryOperatorOnNonNumber('-')) for '-' on another value,
\* Err(InvalidUnaryOperator(op, v)) for any other operator; so -(-e) is e.
C7_UnaryCases ==
    phase = "interpreted" =>
        \A e \in SubExprs(ast[1]) :
            (e.kind = "Unary" /\ ResultOf(e.right).ok) =>
                LET v == ResultOf(e.right).val
                    r == Ungrouped(e.right)
                IN  /\ (e.op = Minus /\ v.v = "Number")
                          => ResultOf(e) = Ok(RNumber(0 - v.n))
                    /\ (e.op = Minus /\ v.v # "Number")
                          => ResultOf(e) = Err(UnaryOperatorOnNonNumber(Minus))
                    /\ e.op # Minus
                          => ResultOf(e) = Err(InvalidUnaryOperator(e.op, v))
                    /\ (e.op = Minus /\ r.kind = "Unary" /\ r.op = Minus
                          /\ IsNumber(ResultOf(r.right)))
                          => ResultOf(e) = ResultOf(r.right)

C7_Witness ==
    /\ phase = "interpreted"
    /\ ast = <<Unary(Minus, Grouping(Unary(Minus, Literal(LitNumber(2)))))>>
    /\ vals = <<Ok(RNumber(2))>>

\* C8: a Binary node of another operator than '+' and '-' whose operands both
\* evaluate gives Err(InvalidBinaryOperator(op, left value, right value)),
\* whatever the values; a Binary node whose left operand fails gives the left
\* operand's error.
C8_InvalidBinaryOperator ==
    phase = "interpreted" =>
        \A e \in SubExprs(ast[1]) :
            e.kind = "Binary" =>
                /\ (/\ e.op \notin {Plus, Minus}
                    /\ ResultOf(e.left).ok
                    /\ ResultOf(e.right).ok)
                   => ResultOf(e) = Err(InvalidBinaryOperator(
                                           e.op, ResultOf(e.left).val,
                                           ResultOf(e.right).val))
                /\ ~ResultOf(e.left).ok => ResultOf(e) = ResultOf(e.left)

C8_Witness ==
    /\ phase = "interpreted"
    /\ ast = <<Binary(Literal(LitString("a")), Mult, Literal(LitNil))>>
    /\ vals = <<Err(InvalidBinaryOperator(Mult, RString("a"), RNil))>>

\* The name of register d as the disassembly prints it.
RegisterText(d) ==
    "R" \o (CASE d = 0 -> "0" [] d = 1 -> "1" [] d = 2 -> "2" [] d = 3 -> "3"
              [] d = 4 -> "4" [] d = 5 -> "5" [] d = 6 -> "6" [] d = 7 -> "7")

\* C9: a chunk of opcode Add or Sub and operand bytes d, s in 0..7
\* disassembles to "<Mnemonic> R<d> R<s>"; [Add, 1, 2] to "Add R1 R2".
C9_Disassembly ==
    phase = "dissasembled" =>
        /\ (chunk[1] \in {Add, Sub} /\ chunk[2] \in 0..7 /\ chunk[3] \in 0..7)
              => text = (IF chunk[1] = Add THEN "Add" ELSE "Sub") \o " "
                        \o RegisterText(chunk[2]) \o " "
                        \o RegisterText(chunk[3])
        /\ chunk = <<Add, 1, 2>> => text = "Add R1 R2"

C9_Witness ==
    /\ phase = "dissasembled"
    /\ chunk = <<Add, 1, 2>>
    /\ text = "Add R1 R2"

\* C10: Compiler::parse returns a chunk sequence or fails with
\* RegisterExhausted; it never aborts.
C10_CompilerNeverAborts == abort # "not yet implemented"

RegisterNames == {RegisterText(d) : d \in 0..7}

\* C11: for every chunk and each operand index, parse_operand returns one of
\* "R0" .. "R7", never the empty string, and the mnemonic of the disassembly
\* is "Add" or "Sub", never empty.
C11_NoEmptyField ==
    phase = "dissasembled" =>
        /\ parse_operand(chunk, 0) \in RegisterNames
        /\ parse_operand(chunk, 1) \in RegisterNames
        /\ text \in {m \o " " \o a \o " " \o b :
                        m \in {"Add", "Sub"},
                        a \in RegisterNames, b \in RegisterNames}

\* The tokens the running call of fn takes at place pc, if the next token is
\* one of them: those of its tmatch, or those primary advances over.
Takes(fn, pc) ==
    CASE fn = "equality" /\ pc \in {"left", "right"} -> {"NEqual", "DEqual"}
      [] fn = "comparison" /\ pc \in {"left", "right"} ->
            {"Less", "Greater", "LEqual", "GEqual"}
      [] fn = "term" /\ pc \in {"left", "right"} -> {"Minus", "Plus"}
      [] fn = "factor" /\ pc \in {"left", "right"} -> {"Div", "Mult"}
      [] fn = "unary" /\ pc = "begin" -> {"Bang", "Minus"}
      [] fn = "primary" /\ pc = "begin" ->
            {"String", "Number", "True", "False", "Nil", "LParen"}
      [] fn = "primary" /\ pc = "group" -> {"RParen"}
      [] OTHER -> {}

\* The step the parser is about to take consumes the token at pos.
Consumes ==
    /\ phase = "parsing"
    /\ stack # <<>>
    /\ pos < Len(tokens)
    /\ tokens[pos + 1].t \in Takes(top.fn, top.pc)

\* C12: while parsing, 0 <= pos <= tokens.len(); pos never decreases; a step
\* moves pos by exactly +1 when it consumes a token (advance, or a tmatch that
\* succeeds) and leaves pos unchanged otherwise (peek, check, a tmatch that
\* fails); the token vector never changes.
C12_PosMonotone ==
    /\ [](0 <= pos /\ pos <= Len(tokens))
    /\ [][phase # "source" =>
             /\ tokens' = tokens
             /\ pos' >= pos
             /\ pos' = IF Consumes THEN pos + 1 ELSE pos]_vars

\* A tmatch failed at the end of the input after every token was consumed.
C12_Witness ==
    /\ phase = "parsing"
    /\ tokens = <<Number(1), Plus, Number(2)>>
    /\ pos = Len(tokens)
    /\ stack # <<>>
    /\ top.fn = "comparison"
    /\ top.pc = "left"

\* The running call is where it calls previous().
AtPrevious ==
    /\ phase = "parsing"
    /\ stack # <<>>
    /\ top.pc = "matched"

\* The operators of the tmatch that precedes the running call's previous().
MatchedOps == Takes(top.fn, IF top.fn = "unary" THEN "begin" ELSE "left")

\* C13: every call of previous happens with 1 <= pos <= tokens.len(), reached
\* only by a tmatch that just succeeded, so that pos - 1 is inside the token
\* vector; the token it returns is the operator that tmatch consumed.
C13_PreviousInRange ==
    /\ [](AtPrevious =>
             /\ 1 <= pos
             /\ pos <= Len(tokens)
             /\ previous.t \in MatchedOps)
    /\ [](abort # "previous: unwrap on None")
    /\ [][AtPrevious' => (Consumes /\ previous' = peek)]_vars
    /\ [][AtPrevious =>
             /\ phase' = "parsing"
             /\ stack'[Len(stack)].op = tokens[pos]
             /\ stack'[Len(stack)].op = previous]_vars

C13_Witness ==
    /\ AtPrevious
    /\ top.fn = "term"
    /\ tokens = <<Number(1), Minus, Number(2)>>
    /\ pos = 2
    /\ previous = Minus

====
